---------------------------- MODULE Spec2Model ----------------------------
(***************************************************************************)
(* Model of pygwalker/services/spec.py: resolution of a chart              *)
(* specification from its source (get_spec_json), version-gated migration  *)
(* of field ids (_config_adapter) and reconciliation with the dataset's    *)
(* fields (fill_new_fields).                                               *)
(*                                                                         *)
(* A Python str is a sequence of one-character strings.  A JSON value is a *)
(* record [t, v]: t is the Python type the json module produces and v the  *)
(* payload (the lexeme of a scalar, the characters of a str, the elements  *)
(* of a list, the insertion-ordered (k, v) members of a dict).             *)
(***************************************************************************)
EXTENDS Integers, Sequences, FiniteSets, TLC

(***************************************************************************)
(* Characters and str helpers                                              *)
(***************************************************************************)
Digits == <<"0", "1", "2", "3", "4", "5", "6", "7", "8", "9">>

DigitSet == {Digits[i] : i \in 1..Len(Digits)}

HexLetters == {"a", "b", "c", "d", "e", "f", "A", "B", "C", "D", "E", "F"}

\* str.isspace() characters of the modelled alphabet; json's WHITESPACE is the same set
Whitespace == {" ", "\t", "\n", "\r"}

DigitVal(c) == (CHOOSE i \in 1..Len(Digits) : Digits[i] = c) - 1

RECURSIVE IntToStr(_)
IntToStr(n) ==
    IF n < 10 THEN <<Digits[n + 1]>>
    ELSE Append(IntToStr(n \div 10), Digits[(n % 10) + 1])

\* s[i:] of Python, with i counted from 1
Drop(s, i) == SubSeq(s, i, Len(s))

\* s.startswith(p, i - 1)
StartsWithAt(s, i, p) ==
    /\ i + Len(p) - 1 <= Len(s)
    /\ SubSeq(s, i, i + Len(p) - 1) = p

StartsWith(s, p) == StartsWithAt(s, 1, p)

\* the least j in lo..hi at which p occurs in s, or 0 (the search halves
\* the range, which keeps the evaluation shallow on long texts)
RECURSIVE FirstMatch(_, _, _, _)
FirstMatch(s, p, lo, hi) ==
    IF lo > hi THEN 0
    ELSE IF lo = hi THEN (IF StartsWithAt(s, lo, p) THEN lo ELSE 0)
    ELSE LET mid == (lo + hi) \div 2
             a == FirstMatch(s, p, lo, mid)
         IN  IF a # 0 THEN a ELSE FirstMatch(s, p, mid + 1, hi)

\* s.find(p, i - 1) + 1, or 0 when p does not occur at or after i
Find(s, p, i) == FirstMatch(s, p, i, Len(s) - Len(p) + 1)

\* the concatenation of f[lo], ..., f[hi]
RECURSIVE Flatten(_, _, _)
Flatten(f, lo, hi) ==
    IF lo > hi THEN <<>>
    ELSE IF lo = hi THEN f[lo]
    ELSE Flatten(f, lo, (lo + hi) \div 2) \o Flatten(f, ((lo + hi) \div 2) + 1, hi)

ConcatAll(ss) == Flatten(ss, 1, Len(ss))

Contains(s, p) == Find(s, p, 1) # 0

\* str.replace(old, new): every non-overlapping occurrence, left to right;
\* an empty old matches before every character and at the end.
RECURSIVE ReplaceFrom(_, _, _, _)
ReplaceFrom(s, old, new, i) ==
    IF old = <<>> THEN ConcatAll([k \in 1..Len(s) |-> new \o <<s[k]>>]) \o new
    ELSE
        LET j == Find(s, old, i) IN
        IF j = 0 THEN Drop(s, i)
        ELSE SubSeq(s, i, j - 1) \o new \o ReplaceFrom(s, old, new, j + Len(old))

Replace(s, old, new) == ReplaceFrom(s, old, new, 1)

(***************************************************************************)
(* JSON values                                                             *)
(***************************************************************************)
JStr(cs) == [t |-> "str", v |-> cs]

JNum(cs) == [t |-> "num", v |-> cs]

JArr(es) == [t |-> "list", v |-> es]

JObj(ms) == [t |-> "dict", v |-> ms]

JTrue == [t |-> "bool", v |-> <<"t", "r", "u", "e">>]

JFalse == [t |-> "bool", v |-> <<"f", "a", "l", "s", "e">>]

JNull == [t |-> "None", v |-> <<"n", "u", "l", "l">>]

KV(key, val) == [k |-> key, v |-> val]

IsStr(x) == x.t = "str"

IsList(x) == x.t = "list"

IsDict(x) == x.t = "dict"

\* type-safe equality of two values whose types may differ
JEq(a, b) == a.t = b.t /\ a.v = b.v

\* key in d
HasKey(d, key) == \E i \in 1..Len(d.v) : d.v[i].k = key

\* d[key], for a key that is present
Get(d, key) == d.v[CHOOSE i \in 1..Len(d.v) : d.v[i].k = key].v

\* d[key] = val: a present key keeps its place, a new one goes last
DictSet(d, key, val) ==
    IF HasKey(d, key)
    THEN JObj([i \in 1..Len(d.v) |-> IF d.v[i].k = key THEN KV(key, val) ELSE d.v[i]])
    ELSE JObj(Append(d.v, KV(key, val)))

\* bool(x) of Python
Truthy(x) ==
    CASE x.t = "bool" -> JEq(x, JTrue)
      [] x.t = "None" -> FALSE
      [] x.t = "num" -> \E i \in 1..Len(x.v) : x.v[i] \in (DigitSet \ {"0"}) \cup {"I", "N"}
      [] OTHER -> x.v # <<>>

(***************************************************************************)
(* json.loads                                                              *)
(***************************************************************************)
ParseFail == [ok |-> FALSE, val |-> JNull, pos |-> 0]

ParseOk(val, pos) == [ok |-> TRUE, val |-> val, pos |-> pos]

RECURSIVE SkipWs(_, _)
SkipWs(s, i) == IF i <= Len(s) /\ s[i] \in Whitespace THEN SkipWs(s, i + 1) ELSE i

RECURSIVE ScanDigits(_, _)
ScanDigits(s, i) == IF i <= Len(s) /\ s[i] \in DigitSet THEN ScanDigits(s, i + 1) ELSE i

CharAt(s, i) == IF i >= 1 /\ i <= Len(s) THEN s[i] ELSE ""

\* json.scanner NUMBER_RE: (-?(?:0|[1-9]\d*))(\.\d+)?([eE][-+]?\d+)?
ParseNumber(s, i) ==
    LET j0 == IF CharAt(s, i) = "-" THEN i + 1 ELSE i
        intEnd == IF CharAt(s, j0) = "0" THEN j0 + 1
                  ELSE IF CharAt(s, j0) \in DigitSet THEN ScanDigits(s, j0 + 1)
                  ELSE 0
        fracEnd == IF CharAt(s, intEnd) = "." /\ CharAt(s, intEnd + 1) \in DigitSet
                   THEN ScanDigits(s, intEnd + 2)
                   ELSE intEnd
        expAt == IF CharAt(s, fracEnd + 1) \in {"+", "-"} THEN fracEnd + 2 ELSE fracEnd + 1
        expEnd == IF CharAt(s, fracEnd) \in {"e", "E"} /\ CharAt(s, expAt) \in DigitSet
                  THEN ScanDigits(s, expAt + 1)
                  ELSE fracEnd
    IN  IF intEnd = 0 THEN ParseFail
        ELSE ParseOk(JNum(SubSeq(s, i, expEnd - 1)), expEnd)

\* json.decoder.py_scanstring (strict): the body of a string, from the
\* character after the opening quote.  Of the escapes, \" \\ and \/ are
\* modelled; the inputs of this model hold no other backslash sequence.
\* the number of consecutive backslashes that end just before position j,
\* counted no further back than position lo
RECURSIVE BackslashRun(_, _, _)
BackslashRun(s, j, lo) ==
    IF j - 1 >= lo /\ s[j - 1] = "\\" THEN 1 + BackslashRun(s, j - 1, lo) ELSE 0

\* position j of a string body that starts at lo is the second character of
\* an escape
Escaped(s, j, lo) == BackslashRun(s, j, lo) % 2 = 1

\* the least j in lo..hi holding a quote that no backslash escapes, or 0
RECURSIVE FirstQuote(_, _, _, _)
FirstQuote(s, from, lo, hi) ==
    IF lo > hi THEN 0
    ELSE IF lo = hi THEN (IF s[lo] = "\"" /\ ~Escaped(s, lo, from) THEN lo ELSE 0)
    ELSE LET mid == (lo + hi) \div 2
             a == FirstQuote(s, from, lo, mid)
         IN  IF a # 0 THEN a ELSE FirstQuote(s, from, mid + 1, hi)

ScanString(s, i) ==
    LET close == FirstQuote(s, i, i, Len(s))
        body == i..(close - 1)
    IN  IF close = 0 THEN ParseFail
        ELSE IF \E k \in body :
                    \/ s[k] \in {"\t", "\n", "\r"}
                    \/ /\ s[k] = "\\"
                       /\ ~Escaped(s, k, i)
                       /\ s[k + 1] \notin {"\"", "\\", "/"}
             THEN ParseFail
        ELSE ParseOk(JStr(Flatten([k \in body |->
                                      IF s[k] = "\\" /\ ~Escaped(s, k, i) THEN <<>> ELSE <<s[k]>>],
                                  i, close - 1)),
                     close + 1)

Literals ==
    << [lit |-> <<"n", "u", "l", "l">>, val |-> JNull],
       [lit |-> <<"t", "r", "u", "e">>, val |-> JTrue],
       [lit |-> <<"f", "a", "l", "s", "e">>, val |-> JFalse],
       [lit |-> <<"N", "a", "N">>, val |-> JNum(<<"N", "a", "N">>)],
       [lit |-> <<"I", "n", "f", "i", "n", "i", "t", "y">>,
        val |-> JNum(<<"I", "n", "f", "i", "n", "i", "t", "y">>)],
       [lit |-> <<"-", "I", "n", "f", "i", "n", "i", "t", "y">>,
        val |-> JNum(<<"-", "I", "n", "f", "i", "n", "i", "t", "y">>)] >>

RECURSIVE ParseValue(_, _)
RECURSIVE ParseElems(_, _, _)
RECURSIVE ParseMembers(_, _, _)

\* json.scanner.py_make_scanner._scan_once
ParseValue(s, i) ==
    LET c == CharAt(s, i) IN
    IF c = "" THEN ParseFail
    ELSE IF c = "\"" THEN ScanString(s, i + 1)
    ELSE IF c = "{" THEN
        LET j == SkipWs(s, i + 1) IN
        IF CharAt(s, j) = "}" THEN ParseOk(JObj(<<>>), j + 1)
        ELSE ParseMembers(s, j, JObj(<<>>))
    ELSE IF c = "[" THEN
        LET j == SkipWs(s, i + 1) IN
        IF CharAt(s, j) = "]" THEN ParseOk(JArr(<<>>), j + 1)
        ELSE ParseElems(s, j, <<>>)
    ELSE IF \E n \in 1..Len(Literals) : StartsWithAt(s, i, Literals[n].lit) THEN
        LET n == CHOOSE n \in 1..Len(Literals) : StartsWithAt(s, i, Literals[n].lit)
        IN  ParseOk(Literals[n].val, i + Len(Literals[n].lit))
    ELSE ParseNumber(s, i)

\* json.decoder.JSONArray: the elements from position i, after "[" or ","
ParseElems(s, i, acc) ==
    LET r == ParseValue(s, i) IN
    IF ~r.ok THEN ParseFail
    ELSE LET j == SkipWs(s, r.pos)
             c == CharAt(s, j)
         IN  IF c = "]" THEN ParseOk(JArr(Append(acc, r.val)), j + 1)
             ELSE IF c = "," THEN ParseElems(s, SkipWs(s, j + 1), Append(acc, r.val))
             ELSE ParseFail

\* json.decoder.JSONObject: the members from position i, after "{" or ",";
\* dict(pairs) keeps a repeated key at its first place with its last value
ParseMembers(s, i, acc) ==
    IF CharAt(s, i) # "\"" THEN ParseFail
    ELSE LET key == ScanString(s, i + 1) IN
         IF ~key.ok THEN ParseFail
         ELSE LET j == SkipWs(s, key.pos) IN
              IF CharAt(s, j) # ":" THEN ParseFail
              ELSE LET r == ParseValue(s, SkipWs(s, j + 1)) IN
                   IF ~r.ok THEN ParseFail
                   ELSE LET m == SkipWs(s, r.pos)
                            c == CharAt(s, m)
                            d == DictSet(acc, key.val.v, r.val)
                        IN  IF c = "}" THEN ParseOk(d, m + 1)
                            ELSE IF c = "," THEN ParseMembers(s, SkipWs(s, m + 1), d)
                            ELSE ParseFail

\* json.loads(s): [ok, val]; ok = FALSE is json.JSONDecodeError
JsonLoads(s) ==
    LET r == ParseValue(s, SkipWs(s, 1)) IN
    IF r.ok /\ SkipWs(s, r.pos) = Len(s) + 1 THEN r ELSE ParseFail

(***************************************************************************)
(* json.dumps (default separators ", " and ": ")                           *)
(***************************************************************************)
Escape(cs) ==
    ConcatAll([k \in 1..Len(cs) |-> IF cs[k] \in {"\"", "\\"} THEN <<"\\", cs[k]>> ELSE <<cs[k]>>])

Quote(cs) == <<"\"">> \o Escape(cs) \o <<"\"">>

RECURSIVE JsonDumps(_)
RECURSIVE DumpElems(_)
RECURSIVE DumpMembers(_)

DumpElems(es) ==
    IF es = <<>> THEN <<>>
    ELSE JsonDumps(Head(es))
         \o (IF Len(es) > 1 THEN <<",", " ">> ELSE <<>>)
         \o DumpElems(Tail(es))

DumpMembers(ms) ==
    IF ms = <<>> THEN <<>>
    ELSE Quote(Head(ms).k) \o <<":", " ">> \o JsonDumps(Head(ms).v)
         \o (IF Len(ms) > 1 THEN <<",", " ">> ELSE <<>>)
         \o DumpMembers(Tail(ms))

JsonDumps(x) ==
    CASE x.t = "str" -> Quote(x.v)
      [] x.t = "list" -> <<"[">> \o DumpElems(x.v) \o <<"]">>
      [] x.t = "dict" -> <<"{">> \o DumpMembers(x.v) \o <<"}">>
      [] OTHER -> x.v

(***************************************************************************)
(* Literals of spec.py                                                     *)
(***************************************************************************)
K_encodings == <<"e", "n", "c", "o", "d", "i", "n", "g", "s">>

K_dimensions == <<"d", "i", "m", "e", "n", "s", "i", "o", "n", "s">>

K_measures == <<"m", "e", "a", "s", "u", "r", "e", "s">>

K_fid == <<"f", "i", "d">>

K_name == <<"n", "a", "m", "e">>

K_computed == <<"c", "o", "m", "p", "u", "t", "e", "d">>

K_basename == <<"b", "a", "s", "e", "n", "a", "m", "e">>

K_dragId == <<"d", "r", "a", "g", "I", "d">>

K_analyticType == <<"a", "n", "a", "l", "y", "t", "i", "c", "T", "y", "p", "e">>

K_chart_map == <<"c", "h", "a", "r", "t", "_", "m", "a", "p">>

K_config == <<"c", "o", "n", "f", "i", "g">>

K_version == <<"v", "e", "r", "s", "i", "o", "n">>

GW_MEA_VAL_FID == <<"g", "w", "_", "m", "e", "a", "_", "v", "a", "l", "_", "f", "i", "d">>

GW_MEA_KEY_FID == <<"g", "w", "_", "m", "e", "a", "_", "k", "e", "y", "_", "f", "i", "d">>

S_dimension == <<"d", "i", "m", "e", "n", "s", "i", "o", "n">>

KsfPrefix == <<"k", "s", "f", ":", "/", "/">>

HttpPrefix == <<"h", "t", "t", "p", ":">>

HttpsPrefix == <<"h", "t", "t", "p", "s", ":">>

DefaultVersion == <<"0", ".", "1", ".", "0">>

ThresholdVersion == <<"0", ".", "3", ".", "1", "7", "a", "4">>

DragIdPrefix == <<"G", "W", "_">>

\* len(config_id) != 32
ConfigIdLen == 32

\* len(os.path.basename(spec)) > 200
MaxBaseNameLen == 200

\* {"chart_map": {}, "config": <config>}
SpecDoc(config) == JObj(<<KV(K_chart_map, JObj(<<>>)), KV(K_config, JStr(config))>>)

(***************************************************************************)
(* _is_json, _is_config_id                                                 *)
(***************************************************************************)
_is_json(s) == JsonLoads(s).ok

\* the digits of int(s, 16) from position i: single underscores between
\* digits only; the position after the last digit, or 0 for a ValueError
RECURSIVE ScanHexDigits(_, _, _)
ScanHexDigits(s, i, prev) ==
    LET c == CharAt(s, i) IN
    IF c \in DigitSet \cup HexLetters THEN ScanHexDigits(s, i + 1, "digit")
    ELSE IF c = "_" THEN (IF prev = "digit" THEN ScanHexDigits(s, i + 1, "underscore") ELSE 0)
    ELSE IF prev = "digit" THEN i
    ELSE 0

\* int(s, 16) does not raise ValueError: surrounding whitespace, a sign, a
\* 0x or 0X prefix (and one underscore after it) are accepted
IsHexInt(s) ==
    LET i1 == SkipWs(s, 1)
        i2 == IF CharAt(s, i1) \in {"+", "-"} THEN i1 + 1 ELSE i1
        i3 == IF CharAt(s, i2) = "0" /\ CharAt(s, i2 + 1) \in {"x", "X"}
              THEN (IF CharAt(s, i2 + 2) = "_" THEN i2 + 3 ELSE i2 + 2)
              ELSE i2
        i4 == ScanHexDigits(s, i3, "start")
    IN  i4 # 0 /\ SkipWs(s, i4) = Len(s) + 1

_is_config_id(config_id) ==
    IF Len(config_id) # ConfigIdLen THEN FALSE
    ELSE IsHexInt(config_id)

(***************************************************************************)
(* The file system and the network, as _get_spec_json_from_diff_source     *)
(* sees them.  files maps each existing regular file to its content, dirs  *)
(* is the set of existing directories (<<>> is the working directory);     *)
(* paths are compared as written.  net is the answer the remote side gives *)
(* if asked: [up, code, body].                                             *)
(***************************************************************************)
\* p.rfind("/") + 1
LastSlash(p) ==
    LET slashes == {i \in 1..Len(p) : p[i] = "/"} IN
    IF slashes = {} THEN 0 ELSE CHOOSE i \in slashes : \A j \in slashes : j <= i

\* os.path.basename, os.path.dirname
BaseName(p) == Drop(p, LastSlash(p) + 1)

DirName(p) == SubSeq(p, 1, LastSlash(p) - 1)

\* os.path.exists
PathExists(fs, p) == p \in DOMAIN fs.files \/ p \in fs.dirs

\* What a source yields: err is "" or the exception raised; text and tag are
\* the returned pair; kind is the branch taken; fs the file system left
\* behind; calls the network requests issued.
Src(err, text, tag, kind, fs, calls) ==
    [err |-> err, text |-> text, tag |-> tag, kind |-> kind, fs |-> fs, calls |-> calls]

\* _get_spec_from_server
_get_spec_from_server(config_id, fs, net) ==
    IF ~net.up THEN Src("URLError", <<>>, "", "json_server", fs, <<"server">>)
    ELSE IF net.code # 0 THEN Src("InvalidConfigIdError", <<>>, "", "json_server", fs, <<"server">>)
    ELSE Src("", net.body, "json_server", "json_server", fs, <<"server">>)

\* _get_spec_from_url
_get_spec_from_url(url, fs, net) ==
    IF ~net.up THEN Src("URLError", <<>>, "", "json_http", fs, <<"url">>)
    ELSE Src("", net.body, "json_http", "json_http", fs, <<"url">>)

\* read_config_from_cloud(spec[6:])
read_config_from_cloud(path, fs, net) ==
    IF ~net.up THEN Src("CloudError", <<>>, "", "json_ksf", fs, <<"cloud">>)
    ELSE Src("", net.body, "json_ksf", "json_ksf", fs, <<"cloud">>)

\* _get_spec_from_local
_get_spec_from_local(path, fs) ==
    IF path \in fs.dirs THEN Src("IsADirectoryError", <<>>, "", "json_file", fs, <<>>)
    ELSE Src("", fs.files[path], "json_file", "json_file", fs, <<>>)

\* the missing-path branch without the open(spec, "w"): nothing is created
ReturnEmpty(path, fs) == Src("", <<>>, "json_file", "json_file", fs, <<>>)

\* with open(spec, "w") as f: f.write("")
CreateEmpty(path, fs) ==
    IF BaseName(path) = <<>>
    THEN Src("IsADirectoryError", <<>>, "", "json_file", fs, <<>>)
    ELSE IF DirName(path) \in fs.dirs
    THEN Src("", <<>>, "json_file", "json_file",
             [fs EXCEPT !.files = [p \in DOMAIN fs.files \cup {path} |-> IF p = path THEN <<>> ELSE fs.files[p]]],
             <<>>)
    ELSE Src("FileNotFoundError", <<>>, "", "json_file", fs, <<>>)

PrivacyRaise(kind, fs) == Src("PrivacyError", <<>>, "", kind, fs, <<>>)

_get_spec_json_from_diff_source(spec, privacy, fs, net) ==
    IF spec = <<>> THEN Src("", <<>>, "empty_string", "empty_string", fs, <<>>)
    ELSE IF _is_json(spec) THEN Src("", spec, "json_string", "json_string", fs, <<>>)
    ELSE IF StartsWith(spec, KsfPrefix) THEN
        IF privacy = "offline" THEN PrivacyRaise("json_ksf", fs)
        ELSE read_config_from_cloud(Drop(spec, Len(KsfPrefix) + 1), fs, net)
    ELSE IF StartsWith(spec, HttpPrefix) \/ StartsWith(spec, HttpsPrefix) THEN
        IF privacy = "offline" THEN PrivacyRaise("json_http", fs)
        ELSE _get_spec_from_url(spec, fs, net)
    ELSE IF _is_config_id(spec) THEN
        IF privacy = "offline" THEN PrivacyRaise("json_server", fs)
        ELSE _get_spec_from_server(spec, fs, net)
    ELSE IF Len(BaseName(spec)) > MaxBaseNameLen THEN
        Src("ValueError: Spec file name too long", <<>>, "", "json_file", fs, <<>>)
    ELSE IF PathExists(fs, spec) THEN _get_spec_from_local(spec, fs)
    ELSE CreateEmpty(spec, fs)

(***************************************************************************)
(* distutils.version.StrictVersion, as get_spec_json uses it               *)
(***************************************************************************)
RECURSIVE StrToInt(_)
StrToInt(cs) == IF cs = <<>> THEN 0 ELSE StrToInt(SubSeq(cs, 1, Len(cs) - 1)) * 10 + DigitVal(cs[Len(cs)])

\* StrictVersion.parse: ^(\d+)\.(\d+)(\.(\d+))?([ab](\d+))?$ ($ also matches
\* before one trailing newline).  [ok, version, prerelease]; version is
\* (major, minor, patch), prerelease is <<>> or (letter, number).
ParseVersion(vs) ==
    LET cs == IF vs # <<>> /\ vs[Len(vs)] = "\n" THEN SubSeq(vs, 1, Len(vs) - 1) ELSE vs
        e1 == ScanDigits(cs, 1)
        e2 == ScanDigits(cs, e1 + 1)
        hasPatch == CharAt(cs, e2) = "." /\ CharAt(cs, e2 + 1) \in DigitSet
        e3 == IF hasPatch THEN ScanDigits(cs, e2 + 1) ELSE e2
        hasPre == CharAt(cs, e3) \in {"a", "b"} /\ CharAt(cs, e3 + 1) \in DigitSet
        e4 == IF hasPre THEN ScanDigits(cs, e3 + 1) ELSE e3
    IN  IF e1 > 1 /\ CharAt(cs, e1) = "." /\ e2 > e1 + 1 /\ e4 = Len(cs) + 1
        THEN [ok |-> TRUE,
              version |-> << StrToInt(SubSeq(cs, 1, e1 - 1)),
                             StrToInt(SubSeq(cs, e1 + 1, e2 - 1)),
                             IF hasPatch THEN StrToInt(SubSeq(cs, e2 + 1, e3 - 1)) ELSE 0 >>,
              prerelease |-> IF hasPre
                             THEN <<cs[e3], StrToInt(SubSeq(cs, e3 + 1, e4 - 1))>>
                             ELSE <<>>]
        ELSE [ok |-> FALSE, version |-> <<0, 0, 0>>, prerelease |-> <<>>]

\* tuple comparison of two version tuples: -1, 0 or 1
RECURSIVE CmpTuple(_, _)
CmpTuple(a, b) ==
    IF a = <<>> THEN 0
    ELSE IF Head(a) < Head(b) THEN -1
    ELSE IF Head(a) > Head(b) THEN 1
    ELSE CmpTuple(Tail(a), Tail(b))

\* ("a", n) < ("b", m), then by number
CmpPrerelease(p, q) ==
    IF p[1] # q[1] THEN (IF p[1] = "a" THEN -1 ELSE 1)
    ELSE IF p[2] < q[2] THEN -1
    ELSE IF p[2] > q[2] THEN 1
    ELSE 0

\* StrictVersion._cmp
StrictVersionCmp(a, b) ==
    IF a.version # b.version THEN CmpTuple(a.version, b.version)
    ELSE IF a.prerelease = <<>> /\ b.prerelease = <<>> THEN 0
    ELSE IF a.prerelease # <<>> /\ b.prerelease = <<>> THEN -1
    ELSE IF a.prerelease = <<>> /\ b.prerelease # <<>> THEN 1
    ELSE CmpPrerelease(a.prerelease, b.prerelease)

\* the gate with < in place of <=: the threshold itself is not migrated
VersionGateBelow(v) == StrictVersionCmp(v, ParseVersion(ThresholdVersion)) < 0

\* StrictVersion(v) <= StrictVersion("0.3.17a4"), for a v that parses
VersionGate(v) == StrictVersionCmp(v, ParseVersion(ThresholdVersion)) <= 0

\* StrictVersion(x): "" when it can be built and compared, else the exception
VersionError(x) ==
    IF ~Truthy(x) THEN "AttributeError"
    ELSE IF ~IsStr(x) THEN "TypeError"
    ELSE IF ~ParseVersion(x.v).ok THEN "ValueError: invalid version number"
    ELSE ""

(***************************************************************************)
(* rename_columns (pygwalker.services.fname_encodings): a pure function    *)
(* from the display names to as many identifiers, in the same order.  Two  *)
(* such functions are modelled: "dedupe" keeps a name and numbers its      *)
(* repetitions, "indexed" appends the position to every name.              *)
(***************************************************************************)
Occurrences(names, i) == Cardinality({j \in 1..(i - 1) : names[j] = names[i]})

rename_columns(names, sanitizer) ==
    [i \in 1..Len(names) |->
        IF sanitizer = "dedupe"
        THEN (IF Occurrences(names, i) = 0 THEN names[i]
              ELSE names[i] \o <<"_">> \o IntToStr(Occurrences(names, i)))
        ELSE names[i] \o <<"_">> \o IntToStr(i - 1)]

(***************************************************************************)
(* _config_adapter                                                         *)
(***************************************************************************)
\* for x in obj: the items of the iteration, or a TypeError
Iterate(obj) ==
    CASE obj.t = "list" -> [err |-> "", items |-> obj.v]
      [] obj.t = "dict" -> [err |-> "", items |-> [i \in 1..Len(obj.v) |-> JStr(obj.v[i].k)]]
      [] obj.t = "str" -> [err |-> "", items |-> [i \in 1..Len(obj.v) |-> JStr(<<obj.v[i]>>)]]
      [] OTHER -> [err |-> "TypeError", items |-> <<>>]

\* chart_item["encodings"]["dimensions"] + chart_item["encodings"]["measures"],
\* as the items a for loop over the sum visits
ChartFields(chart_item) ==
    IF ~IsDict(chart_item) THEN [err |-> "TypeError", items |-> <<>>]
    ELSE IF ~HasKey(chart_item, K_encodings) THEN [err |-> "KeyError", items |-> <<>>]
    ELSE LET enc == Get(chart_item, K_encodings) IN
         IF ~IsDict(enc) THEN [err |-> "TypeError", items |-> <<>>]
         ELSE IF ~HasKey(enc, K_dimensions) \/ ~HasKey(enc, K_measures)
              THEN [err |-> "KeyError", items |-> <<>>]
         ELSE LET d == Get(enc, K_dimensions)
                  m == Get(enc, K_measures)
              IN  IF (IsList(d) /\ IsList(m)) \/ (IsStr(d) /\ IsStr(m))
                  THEN Iterate([t |-> d.t, v |-> d.v \o m.v])
                  ELSE [err |-> "TypeError", items |-> <<>>]

Sentinels == {GW_MEA_VAL_FID, GW_MEA_KEY_FID}

IsSentinel(x) == IsStr(x) /\ x.v \in Sentinels

\* field.get("computed", False)
Computed(field) == HasKey(field, K_computed) /\ Truthy(Get(field, K_computed))

\* old_fid_fname_map: the (fid, name) pairs of the fields kept by the
\* comprehension's condition; a repeated fid keeps its first place and takes
\* its last name.
RECURSIVE OldFidFnameMap(_, _)
OldFidFnameMap(fields, acc) ==
    IF fields = <<>> THEN [err |-> "", map |-> acc]
    ELSE LET field == Head(fields) IN
         IF ~IsDict(field) THEN [err |-> "AttributeError", map |-> <<>>]
         ELSE IF Computed(field) THEN OldFidFnameMap(Tail(fields), acc)
         ELSE IF ~HasKey(field, K_fid) THEN [err |-> "KeyError", map |-> <<>>]
         ELSE IF IsSentinel(Get(field, K_fid)) THEN OldFidFnameMap(Tail(fields), acc)
         ELSE IF ~HasKey(field, K_name) THEN [err |-> "KeyError", map |-> <<>>]
         ELSE IF ~IsStr(Get(field, K_fid)) \/ ~IsStr(Get(field, K_name))
              THEN [err |-> "TypeError", map |-> <<>>]
         ELSE OldFidFnameMap(Tail(fields),
                             DictSet(JObj(acc), Get(field, K_fid).v, Get(field, K_name).v).v)

\* for old_fid, new_fid in zip(old_fid_list, new_fid_list):
\*     config = config.replace(old_fid, new_fid)
RECURSIVE ReplaceAll(_, _, _)
ReplaceAll(config, old_fid_list, new_fid_list) ==
    IF old_fid_list = <<>> THEN config
    ELSE ReplaceAll(Replace(config, Head(old_fid_list), Head(new_fid_list)),
                    Tail(old_fid_list), Tail(new_fid_list))

\* lines 96-104 for one chart item: config after the replacements, given
\* the old_fid_fname_map m of the item
RenameFields(m, config, sanitizer) ==
    IF m.err # "" THEN [err |-> m.err, text |-> <<>>]
    ELSE [err |-> "",
          text |-> ReplaceAll(config,
                              [i \in 1..Len(m.map) |-> m.map[i].k],
                              rename_columns([i \in 1..Len(m.map) |-> m.map[i].v], sanitizer))]

\* the body of "for chart_item in config_obj" for one chart item, given its
\* fields (ChartFields)
AdaptChart(fields, config, sanitizer) ==
    IF fields.err # "" THEN [err |-> fields.err, text |-> <<>>]
    ELSE RenameFields(OldFidFnameMap(fields.items, <<>>), config, sanitizer)

\* "for chart_item in config_obj" over the remaining items; acc is [err, text]
\* so far
RECURSIVE AdaptCharts(_, _, _)
AdaptCharts(items, acc, sanitizer) ==
    IF items = <<>> \/ acc.err # "" THEN acc
    ELSE AdaptCharts(Tail(items),
                     AdaptChart(ChartFields(Head(items)), acc.text, sanitizer),
                     sanitizer)

\* _config_adapter after config_obj = json.loads(config); p is the parse
AdaptParsed(p, config, sanitizer) ==
    IF ~p.ok THEN [err |-> "JSONDecodeError", text |-> <<>>]
    ELSE IF Iterate(p.val).err # "" THEN [err |-> Iterate(p.val).err, text |-> <<>>]
    ELSE AdaptCharts(Iterate(p.val).items, [err |-> "", text |-> config], sanitizer)

\* _config_adapter(config), config being any value found under "config"
_config_adapter(config, sanitizer) ==
    IF ~IsStr(config) THEN [err |-> "TypeError", text |-> <<>>]
    ELSE AdaptParsed(JsonLoads(config.v), config.v, sanitizer)

(***************************************************************************)
(* get_spec_json                                                           *)
(***************************************************************************)
Raised(err, src, migrated) ==
    [status |-> "raise", err |-> err, doc |-> JNull, tag |-> "", kind |-> src.kind,
     fs |-> src.fs, calls |-> src.calls, migrated |-> migrated]

Returned(doc, src, migrated) ==
    [status |-> "return", err |-> "", doc |-> doc, tag |-> src.tag, kind |-> src.kind,
     fs |-> src.fs, calls |-> src.calls, migrated |-> migrated]

\* spec_obj.get("version", "0.1.0")
DeclaredVersion(spec_obj) ==
    IF HasKey(spec_obj, K_version) THEN Get(spec_obj, K_version) ELSE JStr(DefaultVersion)

\* line 167: spec_obj["config"] = a, a being what _config_adapter gave
StoreConfig(a, spec_obj, src) ==
    IF a.err # "" THEN Raised(a.err, src, TRUE)
    ELSE Returned(DictSet(spec_obj, K_config, JStr(a.text)), src, TRUE)

\* lines 166-169
VersionGated(spec_obj, src, sanitizer) ==
    IF ~IsDict(spec_obj) THEN Raised("AttributeError", src, FALSE)
    ELSE IF VersionError(DeclaredVersion(spec_obj)) # ""
         THEN Raised(VersionError(DeclaredVersion(spec_obj)), src, FALSE)
    ELSE IF ~VersionGate(ParseVersion(DeclaredVersion(spec_obj).v)) THEN Returned(spec_obj, src, FALSE)
    ELSE IF ~HasKey(spec_obj, K_config) THEN Raised("KeyError", src, FALSE)
    ELSE StoreConfig(_config_adapter(Get(spec_obj, K_config), sanitizer), spec_obj, src)

\* lines 158-169, p being json.loads(spec)
Migrate(p, src, sanitizer) ==
    IF ~p.ok THEN Raised("ValueError: spec is not a valid json", src, FALSE)
    ELSE VersionGated(IF IsList(p.val) THEN SpecDoc(src.text) ELSE p.val, src, sanitizer)

\* lines 155-169, src being what _get_spec_json_from_diff_source gave
Resolved(src, sanitizer) ==
    IF src.err # "" THEN Raised(src.err, src, FALSE)
    ELSE IF src.text = <<>> THEN Returned(SpecDoc(<<>>), src, FALSE)
    ELSE Migrate(JsonLoads(src.text), src, sanitizer)

get_spec_json(spec, privacy, fs, net, sanitizer) ==
    Resolved(_get_spec_json_from_diff_source(spec, privacy, fs, net), sanitizer)

(***************************************************************************)
(* fill_new_fields                                                         *)
(***************************************************************************)
\* rand_str() (pygwalker.utils.randoms): the n-th string of a source of
\* distinct strings
rand_str(n) == <<"r">> \o IntToStr(n)

\* field_set: [err, fids] for the fields of one chart item
RECURSIVE FieldSet(_, _)
FieldSet(fields, acc) ==
    IF fields = <<>> THEN [err |-> "", fids |-> acc]
    ELSE IF ~IsDict(Head(fields)) THEN [err |-> "TypeError", fids |-> {}]
    ELSE IF ~HasKey(Head(fields), K_fid) THEN [err |-> "KeyError", fids |-> {}]
    ELSE IF ~IsStr(Get(Head(fields), K_fid)) THEN [err |-> "TypeError", fids |-> {}]
    ELSE FieldSet(Tail(fields), acc \cup {Get(Head(fields), K_fid).v})

\* {**field, "basename": field["name"], "dragId": "GW_" + rand_str()}
GwField(field, n) ==
    DictSet(DictSet(field, K_basename, Get(field, K_name)),
            K_dragId, JStr(DragIdPrefix \o rand_str(n)))

IsDimension(field) == JEq(Get(field, K_analyticType), JStr(S_dimension))

\* new_dimension_fields (dim = TRUE) or new_measure_fields (dim = FALSE): the
\* fields of all_fields from the i-th on that are absent from field_set; the
\* n-th dataset field draws the (seed + n)-th random string
RECURSIVE NewFields(_, _, _, _, _)
NewFields(all_fields, i, field_set, seed, dim) ==
    IF i > Len(all_fields) THEN <<>>
    ELSE (IF Get(all_fields[i], K_fid).v \notin field_set /\ IsDimension(all_fields[i]) = dim
          THEN <<GwField(all_fields[i], seed + i)>>
          ELSE <<>>)
         \o NewFields(all_fields, i + 1, field_set, seed, dim)

\* new put in front of chart_item["encodings"][key] instead of after it
ExtendFront(chart_item, key, new) ==
    DictSet(chart_item, K_encodings,
            DictSet(Get(chart_item, K_encodings), key,
                    JArr(new \o Get(Get(chart_item, K_encodings), key).v)))

\* chart_item["encodings"][key].extend(new)
Extend(chart_item, key, new) ==
    DictSet(chart_item, K_encodings,
            DictSet(Get(chart_item, K_encodings), key,
                    JArr(Get(Get(chart_item, K_encodings), key).v \o new)))

\* lines 133-148 without the test "field["fid"] not in field_set": every
\* dataset field is appended
ExtendChartWithAll(chart_item, fset, all_fields, seed) ==
    IF fset.err # "" THEN [err |-> fset.err, item |-> chart_item]
    ELSE [err |-> "",
          item |-> Extend(Extend(chart_item, K_dimensions,
                                 NewFields(all_fields, 1, {}, seed, TRUE)),
                          K_measures, NewFields(all_fields, 1, {}, seed, FALSE))]

\* lines 133-148 for one chart item, given its field_set fset
ExtendChart(chart_item, fset, all_fields, seed) ==
    IF fset.err # "" THEN [err |-> fset.err, item |-> chart_item]
    ELSE IF ~IsList(Get(Get(chart_item, K_encodings), K_dimensions))
            \/ ~IsList(Get(Get(chart_item, K_encodings), K_measures))
         THEN [err |-> "AttributeError", item |-> chart_item]
    ELSE [err |-> "",
          item |-> Extend(Extend(chart_item, K_dimensions,
                                 NewFields(all_fields, 1, fset.fids, seed, TRUE)),
                          K_measures, NewFields(all_fields, 1, fset.fids, seed, FALSE))]

\* the body of "for chart_item in config_obj" for one chart item, given its
\* fields (ChartFields)
FillChart(chart_item, fields, all_fields, seed) ==
    IF fields.err # "" THEN [err |-> fields.err, item |-> chart_item]
    ELSE ExtendChart(chart_item, FieldSet(fields.items, {}), all_fields, seed)

\* "for chart_item in config_obj" over the remaining items; acc is
\* [err, items], the chart items done so far
RECURSIVE FillCharts(_, _, _, _)
FillCharts(items, all_fields, seed, acc) ==
    IF items = <<>> \/ acc.err # "" THEN acc
    ELSE FillCharts(Tail(items), all_fields, seed + Len(all_fields),
                    [err |-> FillChart(Head(items), ChartFields(Head(items)), all_fields, seed).err,
                     items |-> Append(acc.items,
                                      FillChart(Head(items), ChartFields(Head(items)), all_fields, seed).item)])

\* json.dumps(config_obj), r being [err, items] of the loop
DumpFilled(r) ==
    IF r.err # "" THEN [err |-> r.err, text |-> <<>>]
    ELSE [err |-> "", text |-> JsonDumps(JArr(r.items))]

\* fill_new_fields after config_obj = json.loads(config); p is the parse
FillParsed(p, all_fields, seed) ==
    IF ~p.ok THEN [err |-> "JSONDecodeError", text |-> <<>>]
    ELSE IF IsList(p.val) THEN DumpFilled(FillCharts(p.val.v, all_fields, seed, [err |-> "", items |-> <<>>]))
    ELSE IF Iterate(p.val).err # "" \/ Iterate(p.val).items # <<>>
         THEN [err |-> "TypeError", text |-> <<>>]
    ELSE [err |-> "", text |-> JsonDumps(p.val)]

\* fill_new_fields(config, all_fields): [err, text]
fill_new_fields(config, all_fields, seed) == FillParsed(JsonLoads(config), all_fields, seed)

(***************************************************************************)
(* Inputs: the spec strings handed to get_spec_json, the file systems it   *)
(* may find, the answers of the remote side, the dataset field lists       *)
(***************************************************************************)
Repeat(c, n) == [i \in 1..n |-> c]

\* A run of one hexadecimal digit, 31 to 33 characters long, with one
\* character possibly replaced: the all-hex config ids and their neighbours.
HexBase == {"0", "1", "a"}

Substitutes == {"1", "a", "e", "x", "+", "-", "_", " ", "g"}

\* the substituted position: the first three, one in the middle, the last three
SubstitutedAt ==
    1..3 \cup {ConfigIdLen \div 2} \cup (ConfigIdLen - 1)..(ConfigIdLen + 1)

NearConfigIds ==
    {[i \in 1..n |-> IF i = p THEN c ELSE b] :
        n \in (ConfigIdLen - 1)..(ConfigIdLen + 1), p \in SubstitutedAt,
        b \in HexBase, c \in Substitutes}

P_nope == <<"n", "o", "p", "e", ".", "j", "s", "o", "n">>

P_spec == <<"s", "p", "e", "c", ".", "j", "s", "o", "n">>

P_empty == <<"e", "m", "p", "t", "y", ".", "j", "s", "o", "n">>

P_bad == <<"b", "a", "d", ".", "j", "s", "o", "n">>

P_dir == <<"d">>

P_nodir == <<"n", "o", "d", "i", "r", "/", "n", "o", "p", "e", ".", "j", "s", "o", "n">>

P_indir == <<"d", "/", "n", "o", "p", "e", ".", "j", "s", "o", "n">>

PathInputs ==
    {P_nope, P_spec, P_empty, P_bad, P_dir, P_nodir, P_indir, <<" ">>,
     Repeat("p", MaxBaseNameLen), Repeat("p", MaxBaseNameLen + 1),
     <<"d", "/">> \o Repeat("p", MaxBaseNameLen), P_nodir \o Repeat("p", MaxBaseNameLen)}

UrlInputs ==
    {KsfPrefix \o <<"x">>, HttpPrefix \o <<"/", "/", "x">>, HttpsPrefix \o <<"/", "/", "x">>,
     KsfPrefix, HttpPrefix, <<"k", "s", "f", ":", "/">>, <<"h", "t", "t", "p">>}

Field(fid, name, type) ==
    JObj(<<KV(K_fid, JStr(fid)), KV(K_name, JStr(name)), KV(K_analyticType, JStr(type))>>)

S_measure == <<"m", "e", "a", "s", "u", "r", "e">>

K_rows == <<"r", "o", "w", "s">>

Chart(dims, meas, rows) ==
    JObj(<<KV(K_encodings,
              JObj(<<KV(K_dimensions, JArr(dims)), KV(K_measures, JArr(meas)),
                     KV(K_rows, JArr(rows))>>))>>)

F_city == Field(<<"G", "1">>, <<"c", "i", "t", "y">>, S_dimension)

F_pop == Field(<<"G", "2">>, <<"p", "o", "p">>, S_measure)

F_city2 == Field(<<"G", "3">>, <<"c", "i", "t", "y">>, S_dimension)

\* a field whose fid is a substring of the keys of the document
F_d == Field(<<"d">>, <<"d", "a", "y">>, S_dimension)

\* a field whose fid is a substring of a sentinel identifier
F_val == Field(<<"v", "a", "l">>, <<"x">>, S_measure)

F_calc == DictSet(Field(<<"G", "9">>, <<"c", "a", "l", "c">>, S_measure), K_computed, JTrue)

F_mea_val == Field(GW_MEA_VAL_FID, <<"v", "a", "l", "u", "e", "s">>, S_measure)

F_mea_key == Field(GW_MEA_KEY_FID, <<"k", "e", "y", "s">>, S_dimension)

ChartLists ==
    { <<>>,
      <<Chart(<<F_city>>, <<F_pop>>, <<F_city>>)>>,
      <<Chart(<<F_city, F_mea_key>>, <<F_calc, F_mea_val>>, <<>>)>>,
      <<Chart(<<F_city, F_city2>>, <<>>, <<>>), Chart(<<F_city>>, <<F_pop>>, <<F_pop>>)>>,
      <<Chart(<<F_d>>, <<F_mea_val>>, <<>>)>>,
      <<Chart(<<F_mea_key>>, <<F_val, F_mea_val>>, <<>>)>> }

\* the version strings major.minor[.patch][pre]
VersionStrings ==
    {IntToStr(major) \o <<".">> \o IntToStr(minor) \o patch \o pre :
        major \in {0, 1}, minor \in {2, 3},
        patch \in {<<>>, <<".", "1", "7">>, <<".", "1", "8">>},
        pre \in {<<>>, <<"a", "3">>, <<"a", "4">>, <<"a", "1", "0">>, <<"b", "1">>}}

\* values of "version" that StrictVersion rejects
BadVersions == {JStr(<<"0", ".", "3", ".", "1", "7", "a">>), JStr(<<"v", "1">>), JStr(<<>>), JNum(<<"1">>)}

\* {"version": v, "chart_map": {}, "config": config}
VersionedDoc(v, config) ==
    JObj(<<KV(K_version, v), KV(K_chart_map, JObj(<<>>)), KV(K_config, config)>>)

T_nojson == <<"n", "o", "j", "s", "o", "n">>

LegacyTexts == {JsonDumps(JArr(cl)) : cl \in ChartLists}

DocTexts ==
    {JsonDumps(VersionedDoc(JStr(v), JStr(JsonDumps(JArr(cl))))) :
        v \in VersionStrings,
        cl \in {<<Chart(<<F_city>>, <<>>, <<>>)>>}}
    \cup {JsonDumps(VersionedDoc(JStr(v), JStr(c))) :
            v \in {<<"0", ".", "3", ".", "1", "7">>, ThresholdVersion},
            c \in LegacyTexts \cup {<<>>, T_nojson}}
    \cup {JsonDumps(VersionedDoc(v, JStr(<<"[", "]">>))) : v \in BadVersions}
    \cup {JsonDumps(SpecDoc(c)) : c \in LegacyTexts \cup {<<>>, T_nojson}}
    \cup {JsonDumps(d) : d \in {JObj(<<>>), JObj(<<KV(K_version, JStr(<<"0", ".", "4">>))>>),
                                JObj(<<KV(K_config, JArr(<<>>))>>)}}
    \cup {<<"1", "2", "3">>, <<"\"", "a", "\"">>, <<"n", "u", "l", "l">>, <<" ", "[", " ", "]", " ">>}

\* what a remote answer may hold
StoredTexts ==
    {<<>>, T_nojson, JsonDumps(JArr(<<Chart(<<F_city>>, <<F_pop>>, <<F_city>>)>>))}

SpecInputs == {<<>>} \cup NearConfigIds \cup PathInputs \cup UrlInputs \cup LegacyTexts \cup DocTexts

NoFiles == [p \in {} |-> <<>>]

\* spec.json holds a chart list, empty.json nothing, bad.json no JSON
StoredFiles ==
    [p \in {P_spec, P_empty, P_bad} |->
        IF p = P_empty THEN <<>>
        ELSE IF p = P_bad THEN T_nojson
        ELSE JsonDumps(JArr(<<Chart(<<F_city>>, <<F_pop>>, <<F_city>>)>>))]

\* an empty working directory, or one with the stored files and a directory
FileSystems ==
    {[files |-> NoFiles, dirs |-> {<<>>}],
     [files |-> StoredFiles, dirs |-> {<<>>, P_dir}]}

\* the remote side is down, rejects the id, or answers with a body
NetAnswers ==
    {[up |-> FALSE, code |-> 0, body |-> <<>>], [up |-> TRUE, code |-> 1, body |-> <<>>]}
    \cup {[up |-> TRUE, code |-> 0, body |-> b] : b \in StoredTexts}

NoAnswer == [up |-> FALSE, code |-> 0, body |-> <<>>]

\* dataset field lists: fids are unique within a list
Datasets ==
    { <<F_city, F_pop>>,
      <<Field(<<"n", "1">>, <<"a", "g", "e">>, S_measure), F_city,
        Field(<<"n", "2">>, <<"z", "i", "p">>, S_dimension),
        Field(<<"n", "3">>, <<"s", "u", "m">>, S_measure)>> }

(***************************************************************************)
(* The state machine: one resolution of a spec, then reconciliations of    *)
(* the resolved config with the dataset's fields                           *)
(***************************************************************************)
VARIABLES
    privacy,    \* GlobalVarManager.privacy
    sanitizer,  \* which rename_columns is installed
    fs0,        \* the file system before get_spec_json
    fs,         \* the file system now
    calls,      \* the network requests issued so far
    pc,         \* "start", "resolved", "raised", "filled", "fill_raised"
    spec,       \* the argument of get_spec_json
    net,        \* the remote answer get_spec_json received, if it asked
    ret,        \* what get_spec_json returned or raised
    fills,      \* the fill_new_fields calls so far: [all_fields, before, err, after]
    drawn       \* the number of random strings drawn so far

vars == <<privacy, sanitizer, fs0, fs, calls, pc, spec, net, ret, fills, drawn>>

\* the calls of fill_new_fields one behaviour makes
MaxFills == 2

NoResult ==
    [status |-> "none", err |-> "", doc |-> JNull, tag |-> "", kind |-> "", migrated |-> FALSE]

Init ==
    /\ privacy \in {"offline", "events"}
    /\ sanitizer \in {"dedupe", "indexed"}
    /\ fs0 \in FileSystems
    /\ fs = fs0
    /\ calls = <<>>
    /\ pc = "start"
    /\ spec = <<>>
    /\ net = NoAnswer
    /\ ret = NoResult
    /\ fills = <<>>
    /\ drawn = 0

\* the answers the remote side may give to get_spec_json(s): none unless asked
AnswersTo(s) ==
    IF _get_spec_json_from_diff_source(s, privacy, fs, NoAnswer).calls # <<>>
    THEN NetAnswers
    ELSE {NoAnswer}

\* get_spec_json(s), the remote side answering n if asked
GetSpecJson(s, n) ==
    \E r \in {get_spec_json(s, privacy, fs, n, sanitizer)} :
    /\ spec' = s
    /\ net' = n
    /\ ret' = [status |-> r.status, err |-> r.err, doc |-> r.doc, tag |-> r.tag,
               kind |-> r.kind, migrated |-> r.migrated]
    /\ fs' = r.fs
    /\ calls' = calls \o r.calls
    /\ pc' = IF r.status = "return" THEN "resolved" ELSE "raised"
    /\ UNCHANGED <<privacy, sanitizer, fs0, fills, drawn>>

\* the config the caller holds: the resolved one, then each reconciled one
CurrentConfig ==
    IF fills # <<>> THEN fills[Len(fills)].after
    ELSE IF IsDict(ret.doc) /\ HasKey(ret.doc, K_config) /\ IsStr(Get(ret.doc, K_config))
    THEN Get(ret.doc, K_config).v
    ELSE <<>>

\* config = fill_new_fields(config, all_fields), for a non-empty config
FillNewFields(config, all_fields) ==
    \E r \in {fill_new_fields(config, all_fields, drawn)} :
    /\ config # <<>>
    /\ fills' = Append(fills, [all_fields |-> all_fields, before |-> config,
                               err |-> r.err, after |-> r.text])
    /\ drawn' = drawn + Len(config)
    /\ pc' = IF r.err = "" THEN "filled" ELSE "fill_raised"
    /\ UNCHANGED <<privacy, sanitizer, fs0, fs, calls, spec, net, ret>>

\* the caller resolves one spec
Resolve ==
    /\ pc = "start"
    /\ \E s \in SpecInputs : \E n \in AnswersTo(s) : GetSpecJson(s, n)

\* the caller reconciles the config it holds with a dataset
Reconcile ==
    /\ pc \in {"resolved", "filled"}
    /\ Len(fills) < MaxFills
    /\ \E all_fields \in Datasets : FillNewFields(CurrentConfig, all_fields)

Next == Resolve \/ Reconcile

Spec == Init /\ [][Next]_vars

(***************************************************************************)
(* What one call of get_spec_json was given and what it parsed, read off   *)
(* the state after the call                                                *)
(***************************************************************************)
\* get_spec_json has just returned or raised
Called == pc \in {"resolved", "raised"}

AllHex(s) == \A i \in 1..Len(s) : s[i] \in DigitSet \cup HexLetters

NonHexAt(s) == {i \in 1..Len(s) : s[i] \notin DigitSet \cup HexLetters}

HasRemotePrefix(s) ==
    StartsWith(s, KsfPrefix) \/ StartsWith(s, HttpPrefix) \/ StartsWith(s, HttpsPrefix)

SourceTags ==
    {"empty_string", "json_string", "json_ksf", "json_http", "json_server", "json_file"}

\* the exceptions of the fetch step
SourceErrors ==
    {"URLError", "InvalidConfigIdError", "CloudError", "IsADirectoryError",
     "FileNotFoundError", "PrivacyError", "ValueError: Spec file name too long"}

\* the text the source yielded
Fetched ==
    CASE ret.kind = "json_string" -> spec
      [] ret.kind = "json_file" -> (IF spec \in DOMAIN fs0.files THEN fs0.files[spec] ELSE <<>>)
      [] ret.kind \in {"json_ksf", "json_http", "json_server"} -> net.body
      [] OTHER -> <<>>

\* get_spec_json went on to parse a non-empty text
ParsedText == Called /\ ret.err \notin SourceErrors /\ Fetched # <<>>

\* the document of a parsed value: a legacy list is wrapped
DocumentOf(value, text) == IF IsList(value) THEN SpecDoc(text) ELSE value

Document == DocumentOf(JsonLoads(Fetched).val, Fetched)

\* the declared version, "0.1.0" when absent
Declared(doc) ==
    IF HasKey(doc, K_version) THEN Get(doc, K_version) ELSE JStr(<<"0", ".", "1", ".", "0">>)

\* the gate is decided: the text is a document with a config and a version
\* that reads as major.minor[.patch][(a|b)n]
Gated(doc) ==
    /\ IsDict(doc)
    /\ HasKey(doc, K_config)
    /\ IsStr(Declared(doc))
    /\ ParseVersion(Declared(doc).v).ok

GateDecided == ParsedText /\ JsonLoads(Fetched).ok /\ Gated(Document)

\* Standard ordering as one number: numeric components first, then the
\* pre-release (alpha below beta, then by number), a release above both.
\* (Every number of a modelled version is below 100.)
RankOf(major, minor, patch, pre) == ((major * 100 + minor) * 100 + patch) * 300 + pre

VersionRank(v) ==
    RankOf(v.version[1], v.version[2], v.version[3],
           IF v.prerelease = <<>> THEN 299
           ELSE (IF v.prerelease[1] = "a" THEN 0 ELSE 100) + v.prerelease[2])

AtMostThreshold(doc) == VersionRank(ParseVersion(Declared(doc).v)) <= RankOf(0, 3, 17, 4)

DeclaresVersion(doc, text) == HasKey(doc, K_version) /\ JEq(Get(doc, K_version), JStr(text))

(***************************************************************************)
(* C1.  With privacy not offline, a 32-character all-hex string is         *)
(* classified json_server, and a string got from one by changing one       *)
(* character to a non-hexadecimal character, or by altering its length, is *)
(* never classified json_server.                                           *)
(***************************************************************************)
C1_ConfigIdClassification ==
    (Called /\ privacy # "offline" /\ spec \in NearConfigIds) =>
        /\ (Len(spec) = ConfigIdLen /\ AllHex(spec)) => ret.kind = "json_server"
        /\ (Len(spec) = ConfigIdLen /\ Cardinality(NonHexAt(spec)) = 1) => ret.kind # "json_server"
        /\ (Len(spec) # ConfigIdLen /\ AllHex(spec)) => ret.kind # "json_server"

(***************************************************************************)
(* C2.  Offline, a spec starting with ksf://, http: or https:, and a       *)
(* 32-character hexadecimal config id, raise the privacy error and no      *)
(* network or cloud call is made; the empty string, literal JSON and a     *)
(* local file path are resolved without a privacy error.                   *)
(***************************************************************************)
C2_OfflinePrivacy ==
    (Called /\ privacy = "offline") =>
        /\ (HasRemotePrefix(spec) \/ (Len(spec) = ConfigIdLen /\ AllHex(spec)))
               => (ret.status = "raise" /\ ret.err = "PrivacyError")
        /\ calls = <<>>
        /\ (spec = <<>> \/ spec \in LegacyTexts \cup DocTexts \cup PathInputs)
               => ret.err # "PrivacyError"

(***************************************************************************)
(* C3.  Whenever get_spec_json returns, the tag is one of the six source   *)
(* tags and the document is {} or has shape (b): an object with keys       *)
(* chart_map and config, config being the empty string or a serialized     *)
(* list of chart items.                                                    *)
(***************************************************************************)
IsChartItem(x) == IsDict(x) /\ HasKey(x, K_encodings)

IsChartItemList(p) == p.ok /\ IsList(p.val) /\ \A i \in 1..Len(p.val.v) : IsChartItem(p.val.v[i])

ShapeB(doc) ==
    /\ IsDict(doc)
    /\ HasKey(doc, K_chart_map)
    /\ HasKey(doc, K_config)
    /\ IsStr(Get(doc, K_config))
    /\ (Get(doc, K_config).v = <<>> \/ IsChartItemList(JsonLoads(Get(doc, K_config).v)))

C3_ReturnedShape ==
    ret.status = "return" =>
        /\ ret.tag \in SourceTags
        /\ (JEq(ret.doc, JObj(<<>>)) \/ ShapeB(ret.doc))

(***************************************************************************)
(* C4.  The migrator is applied to config exactly when the declared        *)
(* version ("0.1.0" when absent) is at most 0.3.17a4 in the standard       *)
(* ordering, a pre-release ranking below its release: "0.3.17a4" and an    *)
(* absent version migrate, "0.3.18" and "0.3.17" do not, and a document    *)
(* above the threshold is returned unmodified.                             *)
(***************************************************************************)
GateOn(doc) ==
    Gated(doc) =>
        /\ ret.migrated <=> AtMostThreshold(doc)
        /\ ~AtMostThreshold(doc) => (ret.status = "return" /\ ret.doc = doc)
        /\ DeclaresVersion(doc, <<"0", ".", "3", ".", "1", "7", "a", "4">>) => ret.migrated
        /\ ~HasKey(doc, K_version) => ret.migrated
        /\ DeclaresVersion(doc, <<"0", ".", "3", ".", "1", "8">>) => ~ret.migrated
        /\ DeclaresVersion(doc, <<"0", ".", "3", ".", "1", "7">>) => ~ret.migrated

GateOnParsed(p) == p.ok => GateOn(DocumentOf(p.val, Fetched))

C4_VersionGate == ParsedText => GateOnParsed(JsonLoads(Fetched))

\* a document declaring exactly the threshold was migrated and returned
C4_Witness ==
    /\ GateDecided
    /\ DeclaresVersion(Document, <<"0", ".", "3", ".", "1", "7", "a", "4">>)
    /\ ret.migrated
    /\ ret.status = "return"
    /\ Get(ret.doc, K_config) # Get(Document, K_config)

(***************************************************************************)
(* C5.  Every JSON parse failure on a non-empty spec, of the fetched text  *)
(* or of the config payload the migrator parses, fails with "spec is not a *)
(* valid json", and no document is returned.                               *)
(***************************************************************************)
\* the migrator was handed a config that is not JSON
ConfigPayloadMalformed ==
    /\ ret.migrated
    /\ IsStr(Get(Document, K_config))
    /\ ~JsonLoads(Get(Document, K_config).v).ok

C5_MalformedSpec ==
    (ParsedText /\ (~JsonLoads(Fetched).ok \/ ConfigPayloadMalformed)) =>
        (ret.status = "raise" /\ ret.err = "ValueError: spec is not a valid json")

(***************************************************************************)
(* C6.  A spec classified as a local file path (base name of at most 200   *)
(* characters) that names a path that does not exist returns               *)
(* ({"chart_map": {}, "config": ""}, "json_file"), and afterwards a        *)
(* zero-length file exists at that path.                                   *)
(***************************************************************************)
MissingLocalPath ==
    /\ Called
    /\ ret.kind = "json_file"
    /\ Len(BaseName(spec)) <= MaxBaseNameLen
    /\ ~PathExists(fs0, spec)

EmptyDocumentAndFile ==
    /\ ret.status = "return"
    /\ ret.doc = SpecDoc(<<>>)
    /\ ret.tag = "json_file"
    /\ spec \in DOMAIN fs.files
    /\ fs.files[spec] = <<>>

C6_MissingFile == MissingLocalPath => EmptyDocumentAndFile

\* C6 for the paths at which a file can be created: a missing path whose
\* directory exists and that does not end with a separator returns the empty
\* document and leaves a zero-length file; at any other missing path the
\* error of open() reaches the caller and nothing is created.
Creatable == BaseName(spec) # <<>> /\ DirName(spec) \in fs0.dirs

OpenFailed ==
    /\ ret.status = "raise"
    /\ ret.err \in {"FileNotFoundError", "IsADirectoryError"}
    /\ fs = fs0

C6_MissingFileCreatable ==
    MissingLocalPath => IF Creatable THEN EmptyDocumentAndFile ELSE OpenFailed

\* a missing path inside an existing directory was resolved and the file made
C6_Witness ==
    /\ MissingLocalPath
    /\ Creatable
    /\ DirName(spec) # <<>>
    /\ spec \in DOMAIN fs.files
    /\ spec \notin DOMAIN fs0.files

(***************************************************************************)
(* C7.  Resolving a literal JSON array of chart items with no version      *)
(* returns a document whose config, parsed again, is the input array with  *)
(* every non-computed, non-sentinel old field id replaced by the new id    *)
(* the sanitizer gives it: same charts, same keys, same fields in the same *)
(* order, and no other difference.                                         *)
(***************************************************************************)
\* x with every "fid" that m maps replaced by what m maps it to
RECURSIVE RewriteFids(_, _)
RewriteFids(x, m) ==
    CASE x.t = "list" -> JArr([i \in 1..Len(x.v) |-> RewriteFids(x.v[i], m)])
      [] x.t = "dict" ->
            JObj([i \in 1..Len(x.v) |->
                    KV(x.v[i].k,
                       IF x.v[i].k = K_fid /\ IsStr(x.v[i].v) /\ HasKey(m, x.v[i].v.v)
                       THEN Get(m, x.v[i].v.v)
                       ELSE RewriteFids(x.v[i].v, m))])
      [] OTHER -> x

\* old fid -> new fid of one chart item, om being its old fid -> name map
NewFidMap(om) ==
    JObj([i \in 1..Len(om) |->
            KV(om[i].k, JStr(rename_columns([j \in 1..Len(om) |-> om[j].v], sanitizer)[i]))])

RewrittenChart(chart_item) ==
    RewriteFids(chart_item, NewFidMap(OldFidFnameMap(ChartFields(chart_item).items, <<>>).map))

\* type-safe structural equality of two JSON values
RECURSIVE SameJson(_, _)
SameJson(a, b) ==
    /\ a.t = b.t
    /\ Len(a.v) = Len(b.v)
    /\ CASE a.t = "list" -> \A i \in 1..Len(a.v) : SameJson(a.v[i], b.v[i])
         [] a.t = "dict" -> \A i \in 1..Len(a.v) : a.v[i].k = b.v[i].k /\ SameJson(a.v[i].v, b.v[i].v)
         [] OTHER -> a.v = b.v

RoundTrip(input, output) ==
    /\ output.ok
    /\ IsList(output.val)
    /\ Len(output.val.v) = Len(input.v)
    /\ \A c \in 1..Len(input.v) : SameJson(output.val.v[c], RewrittenChart(input.v[c]))

C7_RoundTrip ==
    (Called /\ spec \in LegacyTexts) =>
        /\ ret.status = "return"
        /\ IsStr(Get(ret.doc, K_config))
        /\ RoundTrip(JsonLoads(spec).val, JsonLoads(Get(ret.doc, K_config).v))

(***************************************************************************)
(* C8.  fill_new_fields is idempotent: applied to its own result with the  *)
(* same dataset field list it yields that result again, adding no field    *)
(* reference to any chart item.                                            *)
(***************************************************************************)
\* second is fill_new_fields on what first returned, with the same dataset
Reapplied(first, second) ==
    /\ first.err = ""
    /\ second.before = first.after
    /\ second.all_fields = first.all_fields

C8_Idempotent ==
    (Len(fills) >= 2 /\ Reapplied(fills[Len(fills) - 1], fills[Len(fills)])) =>
        (fills[Len(fills)].err = "" /\ fills[Len(fills)].after = fills[Len(fills) - 1].after)

\* a reconciliation that added fields was repeated with the same dataset
C8_Witness ==
    /\ Len(fills) = 2
    /\ Reapplied(fills[1], fills[2])
    /\ fills[2].err = ""
    /\ Len(fills[1].after) > Len(fills[1].before) + Len(DragIdPrefix)

(***************************************************************************)
(* C9.  fill_new_fields is additive: in every chart item the references    *)
(* of dimensions and of measures stay, unchanged and in order, as a prefix *)
(* of their list; every dataset field whose fid was in neither list is     *)
(* appended once, dimension-typed ones to dimensions and measure-typed     *)
(* ones to measures, in dataset order, with basename equal to its name and *)
(* a dragId that starts with "GW_"; every other encoding key is unchanged. *)
(***************************************************************************)
EncodingOf(chart_item, key) == Get(Get(chart_item, K_encodings), key).v

PresentFids(chart_item) ==
    {Get(f, K_fid).v :
        f \in {EncodingOf(chart_item, K_dimensions)[j] : j \in 1..Len(EncodingOf(chart_item, K_dimensions))}
              \cup {EncodingOf(chart_item, K_measures)[j] : j \in 1..Len(EncodingOf(chart_item, K_measures))}}

TypeOf(key) == IF key = K_dimensions THEN S_dimension ELSE S_measure

\* the places in the dataset of the fields a chart item lacks, of key's type
Lacking(chart_item, all_fields, key) ==
    {j \in 1..Len(all_fields) :
        /\ Get(all_fields[j], K_fid).v \notin PresentFids(chart_item)
        /\ JEq(Get(all_fields[j], K_analyticType), JStr(TypeOf(key)))}

\* the k-th least element of a set of numbers
Nth(S, k) == CHOOSE x \in S : Cardinality({y \in S : y < x}) = k - 1

\* ref is field with basename and dragId added
IsNewReference(ref, field) ==
    /\ IsDict(ref)
    /\ Len(ref.v) = Len(field.v) + 2
    /\ \A m \in 1..Len(field.v) :
          HasKey(ref, field.v[m].k) /\ SameJson(Get(ref, field.v[m].k), field.v[m].v)
    /\ HasKey(ref, K_basename)
    /\ SameJson(Get(ref, K_basename), Get(field, K_name))
    /\ HasKey(ref, K_dragId)
    /\ IsStr(Get(ref, K_dragId))
    /\ StartsWith(Get(ref, K_dragId).v, <<"G", "W", "_">>)

\* after is before followed by the lacking fields, in dataset order
AppendedTo(before, after, lacking, all_fields) ==
    /\ Len(after) = Len(before) + Cardinality(lacking)
    /\ \A j \in 1..Len(before) : SameJson(after[j], before[j])
    /\ \A k \in 1..Cardinality(lacking) :
          IsNewReference(after[Len(before) + k], all_fields[Nth(lacking, k)])

SameKeys(a, b) == IsDict(b) /\ [i \in 1..Len(a.v) |-> a.v[i].k] = [i \in 1..Len(b.v) |-> b.v[i].k]

ChartAdditive(b, a, all_fields) ==
    /\ SameKeys(b, a)
    /\ \A i \in 1..Len(b.v) : b.v[i].k # K_encodings => SameJson(a.v[i].v, b.v[i].v)
    /\ SameKeys(Get(b, K_encodings), Get(a, K_encodings))
    /\ \A i \in 1..Len(Get(b, K_encodings).v) :
          LET key == Get(b, K_encodings).v[i].k IN
          IF key \in {K_dimensions, K_measures}
          THEN /\ IsList(Get(Get(a, K_encodings), key))
               /\ AppendedTo(EncodingOf(b, key), EncodingOf(a, key),
                             Lacking(b, all_fields, key), all_fields)
          ELSE SameJson(Get(a, K_encodings).v[i].v, Get(b, K_encodings).v[i].v)

FillAdditive(before, after, all_fields) ==
    IsList(before) =>
        /\ after.ok
        /\ IsList(after.val)
        /\ Len(after.val.v) = Len(before.v)
        /\ \A c \in 1..Len(before.v) : ChartAdditive(before.v[c], after.val.v[c], all_fields)

\* of the latest call of fill_new_fields
Additive(fill) ==
    fill.err = "" =>
        FillAdditive(JsonLoads(fill.before).val, JsonLoads(fill.after), fill.all_fields)

C9_Additive == fills # <<>> => Additive(fills[Len(fills)])

\* a chart item with a dimension and a measure received a new dimension and
\* a new measure
GrewBoth(b, a) ==
    /\ EncodingOf(b, K_dimensions) # <<>>
    /\ EncodingOf(b, K_measures) # <<>>
    /\ Len(EncodingOf(a, K_dimensions)) > Len(EncodingOf(b, K_dimensions))
    /\ Len(EncodingOf(a, K_measures)) > Len(EncodingOf(b, K_measures))

C9_Witness ==
    /\ Len(fills) = 1
    /\ fills[1].err = ""
    /\ IsList(JsonLoads(fills[1].before).val)
    /\ \E c \in 1..Len(JsonLoads(fills[1].before).val.v) :
          GrewBoth(JsonLoads(fills[1].before).val.v[c], JsonLoads(fills[1].after).val.v[c])

(***************************************************************************)
(* C10.  Migration never renames the sentinel identifiers gw_mea_val_fid   *)
(* and gw_mea_key_fid: every occurrence of one in the config before        *)
(* migration is the same sentinel at the same place afterwards.            *)
(***************************************************************************)
\* the values under "fid", in document order
RECURSIVE FidValues(_)
FidValues(x) ==
    CASE x.t = "list" -> ConcatAll([i \in 1..Len(x.v) |-> FidValues(x.v[i])])
      [] x.t = "dict" ->
            ConcatAll([i \in 1..Len(x.v) |->
                         IF x.v[i].k = K_fid /\ IsStr(x.v[i].v) THEN <<x.v[i].v.v>>
                         ELSE FidValues(x.v[i].v)])
      [] OTHER -> <<>>

SentinelsKept(before, after) ==
    /\ Len(after) = Len(before)
    /\ \A i \in 1..Len(before) :
          before[i] \in {<<"g", "w", "_", "m", "e", "a", "_", "v", "a", "l", "_", "f", "i", "d">>,
                         <<"g", "w", "_", "m", "e", "a", "_", "k", "e", "y", "_", "f", "i", "d">>}
          => after[i] = before[i]

C10_SentinelsNeverRenamed ==
    (GateDecided /\ ret.migrated /\ ret.status = "return") =>
        /\ JsonLoads(Get(ret.doc, K_config).v).ok
        /\ SentinelsKept(FidValues(JsonLoads(Get(Document, K_config).v).val),
                         FidValues(JsonLoads(Get(ret.doc, K_config).v).val))
=============================================================================
